---- MODULE Spec2Model ----
(* Model of the unidown text cursor (src/src/lib.rs) and of the escape      *)
(* decoder built on it (src/src/unescape.rs).                               *)
(*                                                                          *)
(* Text is a sequence of characters; a character is its Unicode code point. *)
(* Offsets are byte offsets of the UTF-8 encoding, as in the source.        *)
(* A Chars iterator is a view [ptr, s]: ptr is the byte offset of the view  *)
(* inside the cursor's input (the address the source subtracts in           *)
(* position()), s is the text still to be yielded.                          *)
EXTENDS Integers, Sequences, FiniteSets, TLC

(* ---------------------------------------------------------------------- *)
(* Bounds                                                                   *)
(* ---------------------------------------------------------------------- *)
MaxLen == 3        \* longest text walked by the cursor operations
MaxContent == 3    \* longest free-form literal content given to the decoder
MaxTail == 1         \* longest text after a generated failing escape
MaxBody == 7       \* longest body between the braces of a generated \u{...}

(* ---------------------------------------------------------------------- *)
(* Characters and strings                                                   *)
(* ---------------------------------------------------------------------- *)
NoChar == 0 - 1    \* Option::None of a character

\* The characters the cursor texts are built from: '\n', '\r' and the
\* two-byte letter U+00E9.
CursorAlphabet == {10, 13, 233}

len_utf8(c) ==
    IF c < 128 THEN 1 ELSE IF c < 2048 THEN 2 ELSE IF c < 65536 THEN 3 ELSE 4

RECURSIVE ByteLen(_)
ByteLen(s) == IF s = <<>> THEN 0 ELSE len_utf8(Head(s)) + ByteLen(Tail(s))

\* str[a..b] for byte offsets a <= b: the characters that start in [a, b).
RECURSIVE SliceFrom(_, _, _, _)
SliceFrom(s, off, a, b) ==
    IF s = <<>> THEN <<>>
    ELSE IF off >= b THEN <<>>
    ELSE IF off >= a THEN <<Head(s)>> \o SliceFrom(Tail(s), off + len_utf8(Head(s)), a, b)
    ELSE SliceFrom(Tail(s), off + len_utf8(Head(s)), a, b)

Slice(s, a, b) == SliceFrom(s, 0, a, b)

\* The strings over the alphabet A of length n.
Strings(A, n) == [1..n -> A]

(* ---------------------------------------------------------------------- *)
(* Cursor (src/src/lib.rs)                                                  *)
(* ---------------------------------------------------------------------- *)
chars_of(str, ptr) == [ptr |-> ptr, s |-> str]

new(input, chars) == [input |-> input, chars |-> chars]

from(input) == [input |-> input, chars |-> chars_of(input, 0)]

input(c) == c.input

as_str(c) == c.chars.s

is_empty(c) == as_str(c) = <<>>

\* position as the length of what remains.
position_remaining(c) == ByteLen(c.chars.s)

position(c) == c.chars.ptr

\* previous taking the first character of the text before the position.
previous_first(c) ==
    LET before == Slice(c.input, 0, position(c))
    IN  IF before = <<>> THEN 10 ELSE before[1]

previous(c) ==
    LET before == Slice(c.input, 0, position(c))
    IN  IF before = <<>> THEN 10 ELSE before[Len(before)]

first(c) == IF Len(as_str(c)) >= 1 THEN as_str(c)[1] ELSE NoChar

second(c) == IF Len(as_str(c)) >= 2 THEN as_str(c)[2] ELSE NoChar

\* consume that steps one byte whatever the character's width.
consume_one_byte(c) ==
    IF c.chars.s = <<>>
    THEN [cursor |-> c, ret |-> NoChar]
    ELSE [cursor |-> [c EXCEPT !.chars = [ptr |-> c.chars.ptr + 1, s |-> Tail(c.chars.s)]],
          ret |-> Head(c.chars.s)]

\* Chars::next on the cursor's own iterator: the cursor afterwards and the
\* character returned.
consume(c) ==
    IF c.chars.s = <<>>
    THEN [cursor |-> c, ret |-> NoChar]
    ELSE LET ch == Head(c.chars.s)
         IN  [cursor |-> [c EXCEPT !.chars = [ptr |-> c.chars.ptr + len_utf8(ch),
                                              s   |-> Tail(c.chars.s)]],
              ret |-> ch]

\* consume_while that consumes the character before testing it.
RECURSIVE consume_while_inclusive(_, _, _)
consume_while_inclusive(c, it, P) ==
    IF it = <<>> THEN c
    ELSE IF Head(it) \in P
         THEN consume_while_inclusive(consume(c).cursor, Tail(it), P)
         ELSE consume(c).cursor

\* consume_while: `it` is what the cloned iterator has still to yield.
RECURSIVE consume_while_loop(_, _, _)
consume_while_loop(c, it, P) ==
    IF it = <<>> THEN c
    ELSE IF Head(it) \in P
         THEN consume_while_loop(consume(c).cursor, Tail(it), P)
         ELSE c

consume_while(c, P) == consume_while_loop(c, as_str(c), P)

\* consume_until that tests the character before consuming it.
RECURSIVE consume_until_exclusive(_, _, _)
consume_until_exclusive(c, it, P) ==
    IF it = <<>> THEN c
    ELSE IF Head(it) \in P THEN c
         ELSE consume_until_exclusive(consume(c).cursor, Tail(it), P)

RECURSIVE consume_until_loop(_, _, _)
consume_until_loop(c, it, P) ==
    IF it = <<>> THEN c
    ELSE LET c1 == consume(c).cursor
         IN  IF Head(it) \in P THEN c1 ELSE consume_until_loop(c1, Tail(it), P)

consume_until(c, P) == consume_until_loop(c, as_str(c), P)

consume_line(c) == consume_until(c, {10})

\* str::split_inclusive('\n'): the pieces, each with its terminator.
RECURSIVE split_inclusive(_, _)
split_inclusive(s, acc) ==
    IF s = <<>> THEN (IF acc = <<>> THEN <<>> ELSE <<acc>>)
    ELSE IF Head(s) = 10
         THEN <<acc \o <<10>>>> \o split_inclusive(Tail(s), <<>>)
         ELSE split_inclusive(Tail(s), acc \o <<Head(s)>>)

\* The map of str::lines stripping the "\n" only.
strip_newline_only(l) ==
    IF l # <<>> /\ l[Len(l)] = 10 THEN SubSeq(l, 1, Len(l) - 1) ELSE l

\* The map of str::lines: strip one trailing "\n", then one "\r" before it.
strip_line(l) ==
    IF l # <<>> /\ l[Len(l)] = 10
    THEN LET l1 == SubSeq(l, 1, Len(l) - 1)
         IN  IF l1 # <<>> /\ l1[Len(l1)] = 13 THEN SubSeq(l1, 1, Len(l1) - 1) ELSE l1
    ELSE l

lines(s) ==
    LET parts == split_inclusive(s, <<>>)
    IN  [i \in 1..Len(parts) |-> strip_line(parts[i])]

\* The line predicates the callers pass, by name.
LinePreds == {"blank", "starts_e", "ends_cr"}

line_pred(q, l) ==
    CASE q = "blank" -> l = <<>>
      [] q = "starts_e" -> l # <<>> /\ Head(l) = 233
      [] q = "ends_cr" -> l # <<>> /\ l[Len(l)] = 13

\* The loop of consume_lines_while consuming the line before it tests it.
RECURSIVE consume_lines_while_inclusive(_, _, _)
consume_lines_while_inclusive(c, it, q) ==
    IF it = <<>> THEN c
    ELSE IF line_pred(q, Head(it))
         THEN consume_lines_while_inclusive(consume_line(c), Tail(it), q)
         ELSE consume_line(c)

RECURSIVE consume_lines_while_loop(_, _, _)
consume_lines_while_loop(c, it, q) ==
    IF it = <<>> THEN c
    ELSE IF line_pred(q, Head(it))
         THEN consume_lines_while_loop(consume_line(c), Tail(it), q)
         ELSE c

consume_lines_while(c, q) == consume_lines_while_loop(c, lines(as_str(c)), q)

RECURSIVE consume_lines_until_loop(_, _, _)
consume_lines_until_loop(c, it, q) ==
    IF it = <<>> THEN c
    ELSE LET c1 == consume_line(c)
         IN  IF line_pred(q, Head(it)) THEN c1 ELSE consume_lines_until_loop(c1, Tail(it), q)

consume_lines_until(c, q) == consume_lines_until_loop(c, lines(as_str(c)), q)

\* The consuming operations by name; P is the character predicate (the set
\* of characters it accepts), q the line predicate.
ConsumeOps == {"consume", "consume_while", "consume_until", "consume_line",
               "consume_lines_while", "consume_lines_until"}

apply_consume(op, c, P, q) ==
    CASE op = "consume" -> consume(c).cursor
      [] op = "consume_while" -> consume_while(c, P)
      [] op = "consume_until" -> consume_until(c, P)
      [] op = "consume_line" -> consume_line(c)
      [] op = "consume_lines_while" -> consume_lines_while(c, q)
      [] op = "consume_lines_until" -> consume_lines_until(c, q)

\* focus_with that slices the input from its beginning.
focus_with_from_zero(c, func_self) ==
    [cursor |-> func_self,
     ret |-> new(func_self.input,
                 chars_of(Slice(func_self.input, 0, position(func_self)), 0))]

\* focus_with that lets the returned cursor run to the end of the input.
focus_with_to_end(c, func_self) ==
    [cursor |-> func_self,
     ret |-> new(func_self.input,
                 chars_of(Slice(func_self.input, position(c), ByteLen(func_self.input)),
                          position(c)))]

\* focus_with whose returned cursor holds the focused text as its input.
focus_with_relative(c, func_self) ==
    [cursor |-> func_self,
     ret |-> from(Slice(func_self.input, position(c), position(func_self)))]

\* focus_with(func): func_self is the cursor as func leaves it.
focus_with(c, func_self) ==
    LET start == position(c)
        self == CHOOSE x \in {func_self} : TRUE
        end == position(self)
    IN  [cursor |-> self,
         ret |-> new(self.input, chars_of(Slice(self.input, start, end), start))]

focus_char(c) == focus_with(c, consume(c).cursor)
focus_line(c) == focus_with(c, consume_line(c))
focus_while(c, P) == focus_with(c, consume_while(c, P))
focus_until(c, P) == focus_with(c, consume_until(c, P))
focus_lines_while(c, q) == focus_with(c, consume_lines_while(c, q))
focus_lines_until(c, q) == focus_with(c, consume_lines_until(c, q))

(* ---------------------------------------------------------------------- *)
(* Span (src/src/lib.rs)                                                    *)
(* ---------------------------------------------------------------------- *)
\* The kinds the callers tag spans with.
Kinds == {"text", "space"}

\* Span::new.
Span_new(kind, cursor) == [kind |-> kind, cursor |-> cursor]

\* to_kind that gives the new span a cursor at the start of the input.
to_kind_rewound(self, other_kind) == Span_new(other_kind, from(self.cursor.input))

to_kind(self, other_kind) == Span_new(other_kind, self.cursor)

deref(self) == self.cursor

deref_mut(self) == self.cursor

(* ---------------------------------------------------------------------- *)
(* Escape decoder (src/src/unescape.rs)                                     *)
(* ---------------------------------------------------------------------- *)
Ok(ch) == [ok |-> TRUE, ch |-> ch, err |-> "none"]
Err(e) == [ok |-> FALSE, ch |-> NoChar, err |-> e]

\* char::to_digit(16); NoChar stands for None.
to_digit16(c) ==
    IF c >= 48 /\ c <= 57 THEN c - 48
    ELSE IF c >= 65 /\ c <= 70 THEN c - 55
    ELSE IF c >= 97 /\ c <= 102 THEN c - 87
    ELSE NoChar

\* char::from_u32(value).ok_or_else(..) of the '}' arm.
from_u32(value) ==
    IF value <= 1114111 /\ ~(value >= 55296 /\ value <= 57343)
    THEN Ok(value)
    ELSE IF value > 1114111
         THEN Err("OutOfRangeUnicodeEscape")
         ELSE Err("LoneSurrogateUnicodeEscape")

Scanned(c, res) == [cursor |-> c, res |-> res]

\* The loop of the 'u' arm counting an underscore as a digit.
RECURSIVE unicode_loop_counting_underscores(_, _, _)
unicode_loop_counting_underscores(c, n_digits, value) ==
    LET r == consume(c)
    IN  IF r.ret = NoChar THEN Scanned(r.cursor, Err("UnclosedUnicodeEscape"))
        ELSE IF r.ret = 95 THEN unicode_loop_counting_underscores(r.cursor, n_digits + 1, value)
        ELSE IF r.ret = 125
             THEN IF n_digits > 6
                  THEN Scanned(r.cursor, Err("OverlongUnicodeEscape"))
                  ELSE Scanned(r.cursor, from_u32(value))
        ELSE LET digit == to_digit16(r.ret)
             IN  IF digit = NoChar
                 THEN Scanned(r.cursor, Err("InvalidCharInUnicodeEscape"))
                 ELSE IF n_digits + 1 > 6
                      THEN unicode_loop_counting_underscores(r.cursor, n_digits + 1, value)
                      ELSE unicode_loop_counting_underscores(r.cursor, n_digits + 1,
                                                             value * 16 + digit)

\* The loop of the 'u' arm converting the value before it looks at the
\* number of digits.
RECURSIVE unicode_loop_value_first(_, _, _)
unicode_loop_value_first(c, n_digits, value) ==
    LET r == consume(c)
    IN  IF r.ret = NoChar THEN Scanned(r.cursor, Err("UnclosedUnicodeEscape"))
        ELSE IF r.ret = 95 THEN unicode_loop_value_first(r.cursor, n_digits, value)
        ELSE IF r.ret = 125
             THEN IF ~from_u32(value).ok
                  THEN Scanned(r.cursor, from_u32(value))
                  ELSE IF n_digits > 6
                       THEN Scanned(r.cursor, Err("OverlongUnicodeEscape"))
                       ELSE Scanned(r.cursor, from_u32(value))
        ELSE LET digit == to_digit16(r.ret)
             IN  IF digit = NoChar
                 THEN Scanned(r.cursor, Err("InvalidCharInUnicodeEscape"))
                 ELSE IF n_digits + 1 > 6
                      THEN unicode_loop_value_first(r.cursor, n_digits + 1, value)
                      ELSE unicode_loop_value_first(r.cursor, n_digits + 1, value * 16 + digit)

\* The loop of the 'u' arm: c is the cursor, n_digits and value the locals.
\* value is updated for the first six digits only, so it stays below 16^6
\* and the u32 never wraps.
RECURSIVE unicode_loop(_, _, _)
unicode_loop(c, n_digits, value) ==
    LET r == consume(c)
    IN  IF r.ret = NoChar THEN Scanned(r.cursor, Err("UnclosedUnicodeEscape"))
        ELSE IF r.ret = 95 THEN unicode_loop(r.cursor, n_digits, value)
        ELSE IF r.ret = 125
             THEN IF n_digits > 6
                  THEN Scanned(r.cursor, Err("OverlongUnicodeEscape"))
                  ELSE Scanned(r.cursor, from_u32(value))
        ELSE LET digit == to_digit16(r.ret)
             IN  IF digit = NoChar
                 THEN Scanned(r.cursor, Err("InvalidCharInUnicodeEscape"))
                 ELSE IF n_digits + 1 > 6
                      THEN unicode_loop(r.cursor, n_digits + 1, value)
                      ELSE unicode_loop(r.cursor, n_digits + 1, value * 16 + digit)

\* The 'x' arm reading both characters before it looks at either.
hex_escape_length_first(c) ==
    LET r1 == consume(c)
        hi == to_digit16(r1.ret)
        r2 == consume(r1.cursor)
        lo == to_digit16(r2.ret)
    IN  IF r1.ret = NoChar THEN Scanned(r1.cursor, Err("TooShortHexEscape"))
        ELSE IF r2.ret = NoChar THEN Scanned(r2.cursor, Err("TooShortHexEscape"))
        ELSE IF hi = NoChar \/ lo = NoChar
             THEN Scanned(r2.cursor, Err("InvalidCharInHexEscape"))
        ELSE Scanned(r2.cursor, Ok((hi * 16 + lo) % 256))

\* The 'x' arm refusing the values that are not ASCII.
hex_escape_ascii_only(c) ==
    LET r1 == consume(c)
        hi == to_digit16(r1.ret)
        r2 == consume(r1.cursor)
        lo == to_digit16(r2.ret)
    IN  IF r1.ret = NoChar THEN Scanned(r1.cursor, Err("TooShortHexEscape"))
        ELSE IF hi = NoChar THEN Scanned(r1.cursor, Err("InvalidCharInHexEscape"))
        ELSE IF r2.ret = NoChar THEN Scanned(r2.cursor, Err("TooShortHexEscape"))
        ELSE IF lo = NoChar THEN Scanned(r2.cursor, Err("InvalidCharInHexEscape"))
        ELSE IF hi * 16 + lo > 127 THEN Scanned(r2.cursor, Err("OutOfRangeHexEscape"))
        ELSE Scanned(r2.cursor, Ok(hi * 16 + lo))

\* The 'x' arm looking at hi and lo and leaving the one that is not a hex
\* digit in the remainder.
hex_escape_peeking(c) ==
    LET r1 == consume(c)
        hi == to_digit16(r1.ret)
        r2 == consume(r1.cursor)
        lo == to_digit16(r2.ret)
    IN  IF r1.ret = NoChar THEN Scanned(r1.cursor, Err("TooShortHexEscape"))
        ELSE IF hi = NoChar THEN Scanned(c, Err("InvalidCharInHexEscape"))
        ELSE IF r2.ret = NoChar THEN Scanned(r2.cursor, Err("TooShortHexEscape"))
        ELSE IF lo = NoChar THEN Scanned(r1.cursor, Err("InvalidCharInHexEscape"))
        ELSE Scanned(r2.cursor, Ok((hi * 16 + lo) % 256))

\* The 'x' arm.
hex_escape(c) ==
    LET r1 == consume(c)
        hi == to_digit16(r1.ret)
        r2 == consume(r1.cursor)
        lo == to_digit16(r2.ret)
    IN  IF r1.ret = NoChar THEN Scanned(r1.cursor, Err("TooShortHexEscape"))
        ELSE IF hi = NoChar THEN Scanned(r1.cursor, Err("InvalidCharInHexEscape"))
        ELSE IF r2.ret = NoChar THEN Scanned(r2.cursor, Err("TooShortHexEscape"))
        ELSE IF lo = NoChar THEN Scanned(r2.cursor, Err("InvalidCharInHexEscape"))
        ELSE Scanned(r2.cursor, Ok((hi * 16 + lo) % 256))

\* The 'u' arm.
unicode_escape(c) ==
    LET r1 == consume(c)
        r2 == consume(r1.cursor)
        digit == to_digit16(r2.ret)
    IN  IF r1.ret # 123 THEN Scanned(r1.cursor, Err("NoBraceInUnicodeEscape"))
        ELSE IF r2.ret = NoChar THEN Scanned(r2.cursor, Err("UnclosedUnicodeEscape"))
        ELSE IF r2.ret = 95 THEN Scanned(r2.cursor, Err("LeadingUnderscoreUnicodeEscape"))
        ELSE IF r2.ret = 125 THEN Scanned(r2.cursor, Err("EmptyUnicodeEscape"))
        ELSE IF digit = NoChar THEN Scanned(r2.cursor, Err("InvalidCharInUnicodeEscape"))
        ELSE unicode_loop(r2.cursor, 1, digit)

\* scan_escape reporting a carriage return after the backslash as a bare
\* carriage return.
scan_escape_bare_cr(c) ==
    LET r == consume(c)
        second_char == r.ret
    IN  IF second_char = NoChar THEN Scanned(r.cursor, Err("LoneSlash"))
        ELSE CASE second_char = 34 -> Scanned(r.cursor, Ok(34))
               [] second_char = 110 -> Scanned(r.cursor, Ok(10))
               [] second_char = 114 -> Scanned(r.cursor, Ok(13))
               [] second_char = 116 -> Scanned(r.cursor, Ok(9))
               [] second_char = 92 -> Scanned(r.cursor, Ok(92))
               [] second_char = 39 -> Scanned(r.cursor, Ok(39))
               [] second_char = 48 -> Scanned(r.cursor, Ok(0))
               [] second_char = 120 -> hex_escape(r.cursor)
               [] second_char = 117 -> unicode_escape(r.cursor)
               [] second_char = 13 -> Scanned(r.cursor, Err("BareCarriageReturn"))
               [] OTHER -> Scanned(r.cursor, Err("InvalidEscape"))

\* scan_escape: the cursor as it leaves it, and the result.  The
\* debug_assert_eq! on previous() aborts a debug build: res "Panic".
scan_escape(c) ==
    LET r == consume(c)
        second_char == r.ret
    IN  IF previous(c) # 92 THEN Scanned(c, Err("Panic"))
        ELSE IF second_char = NoChar THEN Scanned(r.cursor, Err("LoneSlash"))
        ELSE CASE second_char = 34 -> Scanned(r.cursor, Ok(34))
               [] second_char = 110 -> Scanned(r.cursor, Ok(10))
               [] second_char = 114 -> Scanned(r.cursor, Ok(13))
               [] second_char = 116 -> Scanned(r.cursor, Ok(9))
               [] second_char = 92 -> Scanned(r.cursor, Ok(92))
               [] second_char = 39 -> Scanned(r.cursor, Ok(39))
               [] second_char = 48 -> Scanned(r.cursor, Ok(0))
               [] second_char = 120 -> hex_escape(r.cursor)
               [] second_char = 117 -> unicode_escape(r.cursor)
               [] OTHER -> Scanned(r.cursor, Err("InvalidEscape"))

\* The match on first_char with the two modes' delimiters exchanged.
unescape_unit_modes_swapped(c, m, first_char) ==
    CASE first_char = 92 -> scan_escape(c)
      [] first_char = 10 -> Scanned(c, Ok(10))
      [] first_char = 9 -> Scanned(c, Ok(9))
      [] first_char = 34 /\ m = "Single" -> Scanned(c, Err("EscapeOnlyChar"))
      [] first_char = 39 /\ m = "Double" -> Scanned(c, Err("EscapeOnlyChar"))
      [] first_char = 13 -> Scanned(c, Err("BareCarriageReturn"))
      [] OTHER -> Scanned(c, Ok(first_char))

\* The match on first_char treating both quotes as delimiters in both modes.
unescape_unit_any_quote(c, m, first_char) ==
    CASE first_char = 92 -> scan_escape(c)
      [] first_char = 10 -> Scanned(c, Ok(10))
      [] first_char = 9 -> Scanned(c, Ok(9))
      [] first_char = 34 -> Scanned(c, Err("EscapeOnlyChar"))
      [] first_char = 39 -> Scanned(c, Err("EscapeOnlyChar"))
      [] first_char = 13 -> Scanned(c, Err("BareCarriageReturn"))
      [] OTHER -> Scanned(c, Ok(first_char))

\* The match on first_char in unescape_str; c is the cursor after first_char.
unescape_unit(c, m, first_char) ==
    CASE first_char = 92 -> scan_escape(c)
      [] first_char = 10 -> Scanned(c, Ok(10))
      [] first_char = 9 -> Scanned(c, Ok(9))
      [] first_char = 34 /\ m = "Double" -> Scanned(c, Err("EscapeOnlyChar"))
      [] first_char = 39 /\ m = "Single" -> Scanned(c, Err("EscapeOnlyChar"))
      [] first_char = 13 -> Scanned(c, Err("BareCarriageReturn"))
      [] OTHER -> Scanned(c, Ok(first_char))

(* ---------------------------------------------------------------------- *)
(* State                                                                    *)
(* ---------------------------------------------------------------------- *)
VARIABLES
    cs,           \* the cursors the program holds: cs[1] is the cursor it
                  \* drives, cs[2] (once there is one) the cursor that the
                  \* latest focus_* call returned
    made,         \* made[i] tells how cs[i] was made: "from" or "focus"
    last,         \* the latest cursor call: operation, arguments, the cursor
                  \* before and after, and what the call returned
    spans,        \* the spans the program holds: spans[1] is the span the
                  \* latest Span call was made on, spans[2] (once there is
                  \* one) the span that the latest to_kind call returned
    cursor,       \* unescape_str: its cursor argument
    mode,         \* unescape_str: its mode argument
    initial_len,  \* unescape_str: the local initial_len
    units,        \* unescape_str: the callback's calls so far, in order
    pc            \* unescape_str: "idle", "loop" (in the while loop), "done"

vars == <<cs, made, last, spans, cursor, mode, initial_len, units, pc>>

cursor_vars == <<cs, made, last>>
span_vars == <<spans>>
unescape_vars == <<cursor, mode, initial_len, units, pc>>

NoCursor == new(<<>>, chars_of(<<>>, 0))

Call(op, i, P, q, before, after, out, ret) ==
    [op |-> op, i |-> i, P |-> P, q |-> q,
     before |-> before, after |-> after, out |-> out, ret |-> ret]

NoCall == Call("none", 0, {}, "blank", NoCursor, NoCursor, NoCursor, NoChar)

\* The character predicates the callers pass, each as the set it accepts:
\* nothing, the letter, a line terminator character.
CharPreds == {{}, {233}, {10, 13}}

(* ---------------------------------------------------------------------- *)
(* Cursor operations as steps                                               *)
(* ---------------------------------------------------------------------- *)
\* A consume_* call on cs[i] that leaves it as r.
Consumed(op, i, P, q, r) ==
    /\ cs' = [cs EXCEPT ![i] = r]
    /\ UNCHANGED made
    /\ last' = Call(op, i, P, q, cs[i], r, NoCursor, NoChar)
    /\ UNCHANGED <<span_vars, unescape_vars>>

\* A focus_* call on the driven cursor cs[i], r being what focus_with gives:
\* the program goes on with cs[i] and with the cursor the call returned.
Focused(op, i, P, q, r) ==
    /\ cs' = <<r.cursor, r.ret>>
    /\ made' = <<made[i], "focus">>
    /\ last' = Call(op, i, P, q, cs[i], r.cursor, r.ret, NoChar)
    /\ UNCHANGED <<span_vars, unescape_vars>>

Consume ==
    \E i \in DOMAIN cs : \E r \in {consume(cs[i])} :
        /\ cs' = [cs EXCEPT ![i] = r.cursor]
        /\ UNCHANGED made
        /\ last' = Call("consume", i, {}, "blank", cs[i], r.cursor, NoCursor, r.ret)
        /\ UNCHANGED <<span_vars, unescape_vars>>

ConsumeWhile ==
    \E i \in DOMAIN cs, P \in CharPreds : \E r \in {consume_while(cs[i], P)} :
        Consumed("consume_while", i, P, "blank", r)

ConsumeUntil ==
    \E i \in DOMAIN cs, P \in CharPreds : \E r \in {consume_until(cs[i], P)} :
        Consumed("consume_until", i, P, "blank", r)

ConsumeLine ==
    \E i \in DOMAIN cs : \E r \in {consume_line(cs[i])} :
        Consumed("consume_line", i, {}, "blank", r)

ConsumeLinesWhile ==
    \E i \in DOMAIN cs, q \in LinePreds : \E r \in {consume_lines_while(cs[i], q)} :
        Consumed("consume_lines_while", i, {}, q, r)

ConsumeLinesUntil ==
    \E i \in DOMAIN cs, q \in LinePreds : \E r \in {consume_lines_until(cs[i], q)} :
        Consumed("consume_lines_until", i, {}, q, r)

FocusChar ==
    \E i \in {1} : \E r \in {focus_char(cs[i])} :
        Focused("focus_char", i, {}, "blank", r)

FocusLine ==
    \E i \in {1} : \E r \in {focus_line(cs[i])} :
        Focused("focus_line", i, {}, "blank", r)

FocusWhile ==
    \E i \in {1}, P \in CharPreds : \E r \in {focus_while(cs[i], P)} :
        Focused("focus_while", i, P, "blank", r)

FocusUntil ==
    \E i \in {1}, P \in CharPreds : \E r \in {focus_until(cs[i], P)} :
        Focused("focus_until", i, P, "blank", r)

FocusLinesWhile ==
    \E i \in {1}, q \in LinePreds : \E r \in {focus_lines_while(cs[i], q)} :
        Focused("focus_lines_while", i, {}, q, r)

FocusLinesUntil ==
    \E i \in {1}, q \in LinePreds : \E r \in {focus_lines_until(cs[i], q)} :
        Focused("focus_lines_until", i, {}, q, r)

\* A program that walks a text with cursors: cs[1] = Cursor::from(text).
Init ==
    /\ \E n \in 0..MaxLen : \E text \in Strings(CursorAlphabet, n) : cs = <<from(text)>>
    /\ made = <<"from">>
    /\ last = NoCall
    /\ spans = <<>>
    /\ cursor = NoCursor
    /\ mode = "Double"
    /\ initial_len = 0
    /\ units = <<>>
    /\ pc = "idle"

Next ==
    \/ Consume
    \/ ConsumeWhile
    \/ ConsumeUntil
    \/ ConsumeLine
    \/ ConsumeLinesWhile
    \/ ConsumeLinesUntil
    \/ FocusChar
    \/ FocusLine
    \/ FocusWhile
    \/ FocusUntil
    \/ FocusLinesWhile
    \/ FocusLinesUntil

Spec == Init /\ [][Next]_vars

(* ---------------------------------------------------------------------- *)
(* Spans                                                                    *)
(* ---------------------------------------------------------------------- *)
\* A span is made of a cursor the program holds.
SpanNew ==
    /\ spans = <<>>
    /\ \E i \in DOMAIN cs, kind \in Kinds :
        /\ spans' = <<Span_new(kind, cs[i])>>
        /\ last' = Call("Span::new", i, {}, kind, cs[i], cs[i], cs[i], NoChar)
    /\ UNCHANGED <<cs, made, unescape_vars>>

\* to_kind on spans[i]: the program goes on with that span and with the one
\* the call returned.  The record of the call holds the cursor of spans[i]
\* before and after the call, the cursor of the span returned and, as q, the
\* kind given.
ToKind ==
    /\ \E i \in DOMAIN spans, other_kind \in Kinds :
        \E r \in {to_kind(spans[i], other_kind)} :
            /\ spans' = <<spans[i], r>>
            /\ last' = Call("to_kind", i, {}, other_kind,
                            spans[i].cursor, spans[i].cursor, r.cursor, NoChar)
    /\ UNCHANGED <<cs, made, unescape_vars>>

\* consume() on spans[i], which reaches its cursor through deref_mut.
SpanConsume ==
    /\ \E i \in DOMAIN spans : \E r \in {consume(deref_mut(spans[i]))} :
        /\ spans' = [spans EXCEPT ![i] = Span_new(spans[i].kind, r.cursor)]
        /\ last' = Call("Span::consume", i, {}, spans[i].kind,
                        spans[i].cursor, r.cursor, NoCursor, r.ret)
    /\ UNCHANGED <<cs, made, unescape_vars>>

NextSpan == Consume \/ FocusLine \/ SpanNew \/ ToKind \/ SpanConsume

\* A program that carves a line out of a text, makes a span of a cursor and
\* gives it other kinds.
SpecSpan == Init /\ [][NextSpan]_vars

(* ---------------------------------------------------------------------- *)
(* Focusing within a focused range                                          *)
(* ---------------------------------------------------------------------- *)
\* The focus_* operations by name.
focus_op(op, c, P, q) ==
    CASE op = "focus_char" -> focus_char(c)
      [] op = "focus_line" -> focus_line(c)
      [] op = "focus_while" -> focus_while(c, P)
      [] op = "focus_until" -> focus_until(c, P)
      [] op = "focus_lines_while" -> focus_lines_while(c, q)
      [] op = "focus_lines_until" -> focus_lines_until(c, q)

\* A focus_* call on any cursor the program holds, a cursor that an earlier
\* focus_* call returned included: the program goes on with that cursor and
\* with the one the call returned.
FocusOn ==
    \E i \in DOMAIN cs :
        \E a \in ({"focus_char", "focus_line"} \X {{}} \X {"blank"})
               \cup ({"focus_while", "focus_until"} \X CharPreds \X {"blank"})
               \cup ({"focus_lines_while", "focus_lines_until"} \X {{}} \X LinePreds) :
            \E r \in {focus_op(a[1], cs[i], a[2], a[3])} :
                Focused(a[1], i, a[2], a[3], r)

NextNested == Consume \/ FocusOn

\* A program that focuses again within the cursors focus_* returned.
SpecNested == Init /\ [][NextNested]_vars

(* ---------------------------------------------------------------------- *)
(* unescape_str as steps                                                    *)
(* ---------------------------------------------------------------------- *)
Modes == {"Single", "Double"}

\* The characters of free-form literal content: backslash, x, u, '{',
\* the hex digit A, both quotes, carriage return, U+00E9.
ContentAlphabet == {92, 120, 117, 123, 65, 34, 39, 13, 233}

\* What stands between the braces of a generated \u{...} is written with
\* 0, 1, F, _ (values around 0x10FFFF) or with D, F, _ (values around the
\* surrogates).
BodyAlphabets == {{48, 49, 70, 95}, {68, 70, 95}}

\* start that takes first_char to be one byte wide.
range_start_one_byte(il, c, first_char) == il - ByteLen(as_str(c)) - 1

\* `let start`: c is the cursor after first_char, il is initial_len.
range_start(il, c, first_char) == il - ByteLen(as_str(c)) - len_utf8(first_char)

\* `let end`: c is the cursor after the unit.
range_end(il, c) == il - ByteLen(as_str(c))

\* A loop body that leaves the loop once a unit is an error.
UnitStoppingOnError ==
    /\ pc = "loop"
    /\ \E r \in {consume(cursor)} :
        /\ r.ret # NoChar
        /\ \E u \in {unescape_unit(r.cursor, mode, r.ret)} :
            /\ cursor' = u.cursor
            /\ units' = Append(units, [start |-> range_start(initial_len, r.cursor, r.ret),
                                       end |-> range_end(initial_len, u.cursor),
                                       res |-> u.res])
            /\ pc' = IF u.res.ok THEN "loop" ELSE "done"
    /\ UNCHANGED <<mode, initial_len, cursor_vars, span_vars>>

\* One iteration of the while loop: first_char is consumed, the unit is
\* scanned and reported to the callback.
Unit ==
    /\ pc = "loop"
    /\ \E r \in {consume(cursor)} :
        /\ r.ret # NoChar
        /\ \E u \in {unescape_unit(r.cursor, mode, r.ret)} :
            /\ cursor' = u.cursor
            /\ units' = Append(units, [start |-> range_start(initial_len, r.cursor, r.ret),
                                       end |-> range_end(initial_len, u.cursor),
                                       res |-> u.res])
            /\ pc' = IF u.res = Err("Panic") THEN "panic" ELSE "loop"
    /\ UNCHANGED <<mode, initial_len, cursor_vars, span_vars>>

\* The while loop ends: consume() gave None.
Return ==
    /\ pc = "loop"
    /\ consume(cursor).ret = NoChar
    /\ cursor' = consume(cursor).cursor
    /\ pc' = "done"
    /\ UNCHANGED <<mode, initial_len, units, cursor_vars, span_vars>>

\* unescape_str(c, mode, callback) has been called and has set initial_len.
Called(c, m) ==
    /\ cs = <<>>
    /\ made = <<>>
    /\ last = NoCall
    /\ spans = <<>>
    /\ mode = m
    /\ cursor = c
    /\ initial_len = ByteLen(as_str(c))
    /\ units = <<>>
    /\ pc = "loop"

\* The call is made on free-form content: on Cursor::from(content), or on a
\* cursor over the content between the quotes of a literal.
InitFreeForm ==
    \E m \in Modes, n \in 0..MaxContent : \E content \in Strings(ContentAlphabet, n) :
        \/ Called(from(content), m)
        \/ Called(new(<<34>> \o content \o <<34>>, chars_of(content, 1)), m)

\* The call is made on a backslash-u{...} escape, as the tests make it.
InitUnicode ==
    \E A \in BodyAlphabets, n \in 0..MaxBody : \E body \in Strings(A, n) :
        Called(from(<<92, 117, 123>> \o body \o <<125>>), "Double")

\* The hex digits a generated backslash-x escape is written with: 0-9, A-F,
\* a-f.
HexAlphabet == (48..57) \cup (65..70) \cup (97..102)

\* The call is made on a backslash-x escape with its two hex digits.
InitHex ==
    \E m \in Modes, hi \in HexAlphabet, lo \in HexAlphabet :
        Called(from(<<92, 120, hi, lo>>), m)

\* The beginnings of numeric escapes: backslash-x, backslash-x and a digit,
\* backslash-u, backslash-u and '{', backslash-u, '{' and a digit.
EscapeBeginnings ==
    {<<92, 120>>, <<92, 120, 65>>, <<92, 117>>, <<92, 117, 123>>, <<92, 117, 123, 65>>}

\* The characters a generated numeric escape is cut short with: backslash,
\* carriage return, both quotes, U+00E9; and the characters of what follows:
\* n, backslash, double quote.
CuttingChars == {92, 13, 34, 39, 233}
TailAlphabet == {110, 92, 34}

\* The call is made on the beginning of a numeric escape, a character that
\* does not continue it, and a short text after that.
InitCutEscape ==
    \E m \in Modes, b \in EscapeBeginnings, ch \in CuttingChars :
        \E n \in 0..MaxTail : \E tail \in Strings(TailAlphabet, n) :
            Called(from(b \o <<ch>> \o tail), m)

InitUnescape == InitFreeForm \/ InitUnicode \/ InitHex \/ InitCutEscape

NextUnescape ==
    \/ Unit
    \/ Return

SpecUnescape == InitUnescape /\ [][NextUnescape]_vars

\* unescape_str runs on its caller's thread: while its loop can take a step,
\* it takes one.
FairSpecUnescape == InitFreeForm /\ [][NextUnescape]_vars /\ WF_vars(NextUnescape)

(* ---------------------------------------------------------------------- *)
(* Properties of the cursor                                                 *)
(* ---------------------------------------------------------------------- *)
FocusOps == {"focus_char", "focus_line", "focus_while", "focus_until",
             "focus_lines_while", "focus_lines_until"}

\* The consume_* operation a focus_* operation is named after.
ConsumeOf(op) ==
    CASE op = "focus_char" -> "consume"
      [] op = "focus_line" -> "consume_line"
      [] op = "focus_while" -> "consume_while"
      [] op = "focus_until" -> "consume_until"
      [] op = "focus_lines_while" -> "consume_lines_while"
      [] op = "focus_lines_until" -> "consume_lines_until"

\* What the latest call consumed: the remainder before it, less the
\* remainder after it.
Consumed_text ==
    SubSeq(as_str(last.before), 1, Len(as_str(last.before)) - Len(as_str(last.after)))

\* The remainder of c is the text of its input at position().
RemainderInPlace(c) ==
    as_str(c) = Slice(input(c), position(c), position(c) + ByteLen(as_str(c)))

\* C1 as claimed: for every cursor, made by from(text) and advanced, or
\* returned by a focus_* call, length(as_str()) + position() equals
\* length(input()).
C1_SuffixEverywhere ==
    \A i \in DOMAIN cs :
        ByteLen(as_str(cs[i])) + position(cs[i]) = ByteLen(input(cs[i]))

\* C1 as amended: length(as_str()) + position() == length(input()) holds for
\* every cursor made by from(text), however it was advanced; for a cursor
\* returned by a focus_* call the sum is the calling cursor's position after
\* the call, and never more than length(input()); every cursor's remainder is
\* the text of its input at position().
C1_SuffixOrFocusedRange ==
    /\ \A i \in DOMAIN cs :
        /\ RemainderInPlace(cs[i])
        /\ ByteLen(as_str(cs[i])) + position(cs[i]) <= ByteLen(input(cs[i]))
        /\ made[i] = "from" =>
            ByteLen(as_str(cs[i])) + position(cs[i]) = ByteLen(input(cs[i]))
    /\ last.op \in FocusOps =>
        ByteLen(as_str(last.out)) + position(last.out) = position(last.after)

\* C1's case: a focus_* call has returned a cursor that ends before its
\* input does, and that cursor has itself been advanced since.
C1_Witness ==
    /\ Len(cs) = 2
    /\ made = <<"from", "focus">>
    /\ position(cs[1]) > 0
    /\ last.i = 2 /\ last.op \in ConsumeOps
    /\ position(last.after) > position(last.before)
    /\ ByteLen(as_str(cs[2])) + position(cs[2]) < ByteLen(input(cs[2]))

\* C4: a focus_* call on a cursor at position s returns a cursor whose
\* as_str() is input[s..e], e being the caller's position after the call;
\* that is the text the consume_* operation of the same name consumes, and
\* the caller is left as that consume_* operation leaves it.
C4_FocusIsWhatConsumeConsumes ==
    last.op \in FocusOps =>
        LET c == apply_consume(ConsumeOf(last.op), last.before, last.P, last.q)
        IN  /\ as_str(last.out) =
                Slice(input(last.before), position(last.before), position(last.after))
            /\ as_str(last.out) \o as_str(c) = as_str(last.before)
            /\ last.after = c
            /\ input(last.out) = input(last.before)

\* C4's case: a focus_lines_while call made past the start of the input
\* returned some lines and left some.
C4_Witness ==
    /\ last.op = "focus_lines_while"
    /\ position(last.before) > 0
    /\ as_str(last.out) # <<>>
    /\ as_str(last.after) # <<>>

\* C5: after consume_while(P) every consumed character satisfies P, and the
\* remainder is empty or starts with a character that fails P.
C5_ConsumeWhileMaximalPrefix ==
    last.op = "consume_while" =>
        /\ Consumed_text \o as_str(last.after) = as_str(last.before)
        /\ \A k \in DOMAIN Consumed_text : Consumed_text[k] \in last.P
        /\ \/ as_str(last.after) = <<>>
           \/ Head(as_str(last.after)) \notin last.P

\* C5's case: consume_while consumed some characters and stopped before one
\* that fails the predicate.
C5_Witness ==
    /\ last.op = "consume_while"
    /\ Len(Consumed_text) >= 2
    /\ as_str(last.after) # <<>>

\* C6: after consume_until(P) the remainder is empty, or the last consumed
\* character is the first of the original remainder that satisfies P.
C6_ConsumeUntilInclusive ==
    last.op = "consume_until" =>
        /\ Consumed_text \o as_str(last.after) = as_str(last.before)
        /\ \/ as_str(last.after) = <<>>
           \/ /\ Consumed_text # <<>>
              /\ Consumed_text[Len(Consumed_text)] \in last.P
              /\ \A k \in 1..(Len(Consumed_text) - 1) : Consumed_text[k] \notin last.P

\* C6's case: consume_until passed a character that fails the predicate,
\* consumed the first that satisfies it and left the rest.
C6_Witness ==
    /\ last.op = "consume_until"
    /\ Len(Consumed_text) >= 2
    /\ as_str(last.after) # <<>>

(* ---------------------------------------------------------------------- *)
(* Properties of the decoder                                                *)
(* ---------------------------------------------------------------------- *)
\* The literal content unescape_str was called on: the initial_len bytes of
\* the input that start where its cursor started.
Content ==
    LET begin == position(cursor) - (initial_len - ByteLen(as_str(cursor)))
    IN  Slice(input(cursor), begin, begin + initial_len)

\* The text of the content that the k-th reported range covers.
UnitText(content, k) == Slice(content, units[k].start, units[k].end)

RECURSIVE UnitTextsUpTo(_, _)
UnitTextsUpTo(content, k) ==
    IF k = 0 THEN <<>> ELSE UnitTextsUpTo(content, k - 1) \o UnitText(content, k)

HexDigitChars == (48..57) \cup (65..70) \cup (97..102)

HexDigitValue(c) == IF c <= 57 THEN c - 48 ELSE IF c <= 70 THEN c - 55 ELSE c - 87

IsHexDigit(c) == c \in HexDigitChars

\* t is backslash-u, '{', a hex digit, hex digits and underscores, '}'.
WellFormedUnicode(t) ==
    /\ Len(t) >= 5
    /\ SubSeq(t, 1, 3) = <<92, 117, 123>>
    /\ t[Len(t)] = 125
    /\ t[4] \in HexDigitChars
    /\ \A k \in 4..(Len(t) - 1) : t[k] \in HexDigitChars \cup {95}

\* The hex digits of a well-formed backslash-u{...}, in order.
DigitsOf(t) == SelectSeq(SubSeq(t, 4, Len(t) - 1), IsHexDigit)

RECURSIVE ValueOf(_)
ValueOf(ds) ==
    IF ds = <<>> THEN 0
    ELSE ValueOf(SubSeq(ds, 1, Len(ds) - 1)) * 16 + HexDigitValue(ds[Len(ds)])

\* C2: the ranges given to the callback, in call order, tile the content:
\* the first starts at 0, each later one starts where the one before ended,
\* none is empty, the last ends at the content's byte length, and empty
\* content gives no callback.
C2_RangesTileContent ==
    /\ \A k \in DOMAIN units :
        /\ units[k].start < units[k].end
        /\ units[k].start = IF k = 1 THEN 0 ELSE units[k - 1].end
    /\ units # <<>> => units[Len(units)].end = initial_len - ByteLen(as_str(cursor))
    /\ pc = "done" =>
        \A content \in {Content} :
            /\ units = <<>> <=> content = <<>>
            /\ units # <<>> => units[Len(units)].end = ByteLen(content)
            /\ UnitTextsUpTo(content, Len(units)) = content

\* C2's case: a literal between quotes has been decoded into several units,
\* one of them wider than a byte.
C2_Witness ==
    /\ pc = "done"
    /\ position(cursor) > ByteLen(Content)
    /\ Len(units) >= 2
    /\ \E k \in DOMAIN units : units[k].end - units[k].start >= 2

\* C3: unescape_str terminates, and only with the cursor exhausted and the
\* units of the whole content reported, whatever errors it met on the way.
C3_RunsToExhaustion ==
    /\ <>(pc = "done")
    /\ [](pc = "done" =>
            /\ is_empty(cursor)
            /\ UnitTextsUpTo(Content, Len(units)) = Content)

\* C3's case: the decoder has finished, and a unit it reported as an error
\* is followed by further units.
C3_Witness ==
    /\ pc = "done"
    /\ \E k \in DOMAIN units : k < Len(units) /\ ~units[k].res.ok

\* In content, the k-th unit is a backslash-x followed by fewer than two
\* characters before the content ends.
ShortHexUnit(content, k) ==
    /\ Len(UnitText(content, k)) >= 2
    /\ SubSeq(UnitText(content, k), 1, 2) = <<92, 120>>
    /\ Len(Slice(content, units[k].start + 2, ByteLen(content))) < 2

\* The units are looked at once the decoder has finished: by then every unit
\* it reported is in `units`.

\* C7 as claimed: a backslash-x followed by fewer than two characters before
\* the end of the content gives TooShortHexEscape, whatever the character.
C7_ShortHexAlwaysTooShort ==
    pc = "done" => \A content \in {Content} : \A k \in DOMAIN units :
        ShortHexUnit(content, k) => units[k].res = Err("TooShortHexEscape")

\* C7 as amended: a backslash-x followed by nothing, or by one character
\* that is a hex digit and then the end of the content, gives
\* TooShortHexEscape; followed by one character that is not a hex digit it
\* gives InvalidCharInHexEscape.
C7_ShortHexTooShortOrInvalid ==
    pc = "done" => \A content \in {Content} : \A k \in DOMAIN units :
        ShortHexUnit(content, k) =>
            LET rest == Slice(content, units[k].start + 2, ByteLen(content))
            IN  /\ UnitText(content, k) = <<92, 120>> \o rest
                /\ units[k].res =
                      IF rest = <<>> \/ rest[1] \in HexDigitChars
                      THEN Err("TooShortHexEscape")
                      ELSE Err("InvalidCharInHexEscape")

\* C7's case: the content is backslash-x and one hex digit.
C7_Witness ==
    /\ pc = "done"
    /\ Content = <<92, 120, 65>>
    /\ units[1].res = Err("TooShortHexEscape")

\* C8: content that is one well-formed backslash-u{...} with at most six hex
\* digits denoting a character v is reported as one unit spanning the content
\* with outcome Ok(v); underscores count neither as digits nor in v.
C8_UnicodeEscapeDecodes ==
    pc = "done" =>
        \A content \in {Content} :
            (WellFormedUnicode(content) /\ Len(DigitsOf(content)) <= 6) =>
                \A v \in {ValueOf(DigitsOf(content))} :
                    (v <= 1114111 /\ ~(v >= 55296 /\ v <= 57343)) =>
                        units = <<[start |-> 0, end |-> ByteLen(content), res |-> Ok(v)]>>

\* C8's case: six hex digits and an underscore decoded to a character
\* beyond U+FFFF.
C8_Witness ==
    /\ pc = "done"
    /\ WellFormedUnicode(Content)
    /\ Len(DigitsOf(Content)) = 6
    /\ 95 \in {Content[k] : k \in DOMAIN Content}
    /\ units[1].res.ok
    /\ units[1].res.ch > 65535

\* C9: a well-formed backslash-u{...} that reaches its '}' gives, in this
\* order of priority: OverlongUnicodeEscape for more than six hex digits,
\* OutOfRangeUnicodeEscape for a value above 0x10FFFF,
\* LoneSurrogateUnicodeEscape for a value in 0xD800..0xDFFF, else the
\* character.
C9_UnicodeOutcomePriority ==
    pc = "done" => \A content \in {Content} : \A k \in DOMAIN units :
        \A t \in {UnitText(content, k)} :
            WellFormedUnicode(t) =>
                \A ds \in {DigitsOf(t)} :
                    units[k].res =
                      IF Len(ds) > 6 THEN Err("OverlongUnicodeEscape")
                      ELSE IF ValueOf(ds) > 1114111 THEN Err("OutOfRangeUnicodeEscape")
                      ELSE IF ValueOf(ds) >= 55296 /\ ValueOf(ds) <= 57343
                           THEN Err("LoneSurrogateUnicodeEscape")
                      ELSE Ok(ValueOf(ds))

\* C9's case: seven hex digits whose first six are already out of range are
\* reported as overlong.
C9_Witness ==
    /\ pc = "done"
    /\ WellFormedUnicode(Content)
    /\ Len(DigitsOf(Content)) = 7
    /\ ValueOf(SubSeq(DigitsOf(Content), 1, 6)) > 1114111
    /\ units[1].res = Err("OverlongUnicodeEscape")

\* C10: an unescaped '"' is EscapeOnlyChar in Mode Double and itself in Mode
\* Single, an unescaped apostrophe is EscapeOnlyChar in Mode Single and
\* itself in Mode Double, and the unit covers just that character.
C10_DelimiterOfTheMode ==
    pc = "done" => \A content \in {Content} : \A k \in DOMAIN units :
        \A t \in {UnitText(content, k)} :
            /\ (t # <<>> /\ t[1] = 34) =>
                /\ t = <<34>> /\ units[k].end - units[k].start = 1
                /\ units[k].res = IF mode = "Double" THEN Err("EscapeOnlyChar") ELSE Ok(34)
            /\ (t # <<>> /\ t[1] = 39) =>
                /\ t = <<39>> /\ units[k].end - units[k].start = 1
                /\ units[k].res = IF mode = "Single" THEN Err("EscapeOnlyChar") ELSE Ok(39)

\* C10's case: in Mode Single, a '"' passed through and an apostrophe was
\* reported as EscapeOnlyChar.
C10_Witness ==
    /\ mode = "Single"
    /\ \E k \in DOMAIN units : UnitText(Content, k) = <<34>> /\ units[k].res = Ok(34)
    /\ \E k \in DOMAIN units : UnitText(Content, k) = <<39>> /\ units[k].res = Err("EscapeOnlyChar")

\* The byte offset at which the k-th character of s starts.
ByteOffset(s, k) == ByteLen(SubSeq(s, 1, k - 1))

C12_HexEscapeDecodesAllBytes ==
    pc = "done" => \A content \in {Content} :
        (/\ Len(content) = 4
         /\ SubSeq(content, 1, 2) = <<92, 120>>
         /\ content[3] \in HexDigitChars
         /\ content[4] \in HexDigitChars) =>
            units = <<[start |-> 0, end |-> 4,
                       res |-> Ok(HexDigitValue(content[3]) * 16 + HexDigitValue(content[4]))]>>

\* C12's case: backslash-x, a lower-case and an upper-case digit decoded to a
\* value above 0x7F.
C12_Witness ==
    /\ pc = "done"
    /\ Content = <<92, 120, 102, 70>>
    /\ units = <<[start |-> 0, end |-> 4, res |-> Ok(255)]>>

\* The characters that may follow a backslash: '"', n, r, t, backslash,
\* apostrophe, 0, x, u.
EscapeChars == {34, 110, 114, 116, 92, 39, 48, 120, 117}

\* C13: a backslash followed by a character outside EscapeChars is one unit
\* with InvalidEscape whose range is the backslash and that character; a raw
\* carriage return after the backslash is such a character.
C13_UnknownEscapeIsInvalid ==
    pc = "done" => \A content \in {Content} : \A k \in DOMAIN units :
        \A t \in {UnitText(content, k)} :
            (Len(t) >= 2 /\ t[1] = 92 /\ t[2] \notin EscapeChars) =>
                /\ Len(t) = 2
                /\ units[k].end - units[k].start = 1 + len_utf8(t[2])
                /\ units[k].res = Err("InvalidEscape")

\* Each backslash that starts a unit and is followed by a character outside
\* EscapeChars has that character in its unit.
C13_Witness ==
    /\ pc = "done"
    /\ Content = <<92, 13, 233>>
    /\ units[1] = [start |-> 0, end |-> 2, res |-> Err("InvalidEscape")]
    /\ units[2].res = Ok(233)

\* C14: across every consume_* call on a cursor, and every focus_* call made
\* on it, the cursor's position does not decrease; and the position of a
\* cursor is never more than the length of its input.
C14_PositionNeverDecreases ==
    /\ [](\A i \in DOMAIN cs : position(cs[i]) <= ByteLen(input(cs[i])))
    /\ [][/\ position(cs'[1]) >= position(cs[1])
          /\ (Len(cs) = 2 /\ last'.op \in ConsumeOps) =>
                position(cs'[2]) >= position(cs[2])
          /\ position(last'.after) >= position(last'.before)]_vars

\* C14's case: a consume_* call moved a cursor that had been moved before, up
\* to the end of its input.
C14_Witness ==
    /\ last.op \in ConsumeOps
    /\ position(last.before) > 0
    /\ position(last.after) > position(last.before)
    /\ position(last.after) = ByteLen(input(last.after))

\* The character of s whose last byte is the byte before offset p.
CharEndingAt(s, p) ==
    s[CHOOSE k \in DOMAIN s : ByteOffset(s, k) + len_utf8(s[k]) = p]

\* C15: previous() is the newline sentinel when the position is 0 and
\* otherwise the character of the input that ends at the position; after a
\* consume() that returned a character it is that character; and for the
\* cursor a focus_* call returns from offset s > 0 it is the character of the
\* input that ends at s.
C15_PreviousIsCharBeforeRemainder ==
    /\ \A i \in DOMAIN cs :
        previous(cs[i]) =
            IF position(cs[i]) = 0 THEN 10
            ELSE CharEndingAt(input(cs[i]), position(cs[i]))
    /\ (last.op = "consume" /\ last.ret # NoChar) =>
            previous(last.after) = last.ret
    /\ (last.op \in FocusOps /\ position(last.before) > 0) =>
            previous(last.out) =
                CharEndingAt(input(last.before), position(last.before))

\* C15's case: a focus_* call made at an offset after two different
\* characters returned a cursor, whose previous() is the second of them.
C15_Witness ==
    /\ last.op \in FocusOps
    /\ position(last.before) = 3
    /\ as_str(last.out) # <<>>
    /\ input(last.before)[1] = 10
    /\ previous(last.out) = 233

\* The first line of a non-empty text, with its newline when it has one.
FirstLine(s) ==
    LET nl == {k \in DOMAIN s : s[k] = 10}
    IN  IF nl = {} THEN s
        ELSE SubSeq(s, 1, CHOOSE k \in nl : \A j \in nl : k <= j)

\* A text as the sequence of its lines, each with its newline when it has one.
RECURSIVE WholeLines(_)
WholeLines(s) ==
    IF s = <<>> THEN <<>>
    ELSE <<FirstLine(s)>> \o WholeLines(SubSeq(s, Len(FirstLine(s)) + 1, Len(s)))

\* A line without its newline.
WithoutNewline(l) ==
    IF l # <<>> /\ l[Len(l)] = 10 THEN SubSeq(l, 1, Len(l) - 1) ELSE l

\* A line without its newline and without a carriage return right before
\* that newline.
WithoutLineEnding(l) ==
    IF Len(l) >= 2 /\ l[Len(l)] = 10 /\ l[Len(l) - 1] = 13
    THEN SubSeq(l, 1, Len(l) - 2)
    ELSE WithoutNewline(l)

\* The latest call consumed whole lines of the remainder it was given.
ConsumedWholeLines ==
    /\ Consumed_text \o as_str(last.after) = as_str(last.before)
    /\ \/ Consumed_text = <<>>
       \/ Consumed_text[Len(Consumed_text)] = 10
       \/ as_str(last.after) = <<>>

\* C17 as claimed, a line's content being the line without its newline:
\* consume_lines_while(P) consumes whole lines only, the content of every
\* consumed line satisfies P, and afterwards the remainder is empty or the
\* content of its first line fails P.
C17_WhileOnNewlineStrippedLines ==
    last.op = "consume_lines_while" =>
        /\ ConsumedWholeLines
        /\ \A ls \in {WholeLines(Consumed_text)} : \A k \in DOMAIN ls :
                line_pred(last.q, WithoutNewline(ls[k]))
        /\ \/ as_str(last.after) = <<>>
           \/ ~line_pred(last.q, WithoutNewline(FirstLine(as_str(last.after))))

\* C17 amended: the same with a line's content being the line without its
\* newline and without a carriage return right before that newline.
C17_WhileOnLineContents ==
    last.op = "consume_lines_while" =>
        /\ ConsumedWholeLines
        /\ \A ls \in {WholeLines(Consumed_text)} : \A k \in DOMAIN ls :
                line_pred(last.q, WithoutLineEnding(ls[k]))
        /\ \/ as_str(last.after) = <<>>
           \/ ~line_pred(last.q, WithoutLineEnding(FirstLine(as_str(last.after))))

\* C17's case: consume_lines_while consumed a line and stopped before a line
\* that fails the predicate.
C17_Witness ==
    /\ last.op = "consume_lines_while"
    /\ Consumed_text # <<>>
    /\ Consumed_text[Len(Consumed_text)] = 10
    /\ as_str(last.after) # <<>>

\* C18 as claimed, a line's content being the line without its newline:
\* consume_lines_until(P) consumes whole lines, none of the consumed lines
\* before the last satisfies P, and either the last consumed line satisfies P
\* or the whole remainder is consumed.
C18_UntilOnNewlineStrippedLines ==
    last.op = "consume_lines_until" =>
        /\ ConsumedWholeLines
        /\ \A ls \in {WholeLines(Consumed_text)} :
            /\ \A k \in 1..(Len(ls) - 1) : ~line_pred(last.q, WithoutNewline(ls[k]))
            /\ \/ as_str(last.after) = <<>>
               \/ /\ ls # <<>>
                  /\ line_pred(last.q, WithoutNewline(ls[Len(ls)]))

\* C18 amended: the same with a line's content being the line without its
\* newline and without a carriage return right before that newline.
C18_UntilOnLineContents ==
    last.op = "consume_lines_until" =>
        /\ ConsumedWholeLines
        /\ \A ls \in {WholeLines(Consumed_text)} :
            /\ \A k \in 1..(Len(ls) - 1) : ~line_pred(last.q, WithoutLineEnding(ls[k]))
            /\ \/ as_str(last.after) = <<>>
               \/ /\ ls # <<>>
                  /\ line_pred(last.q, WithoutLineEnding(ls[Len(ls)]))

\* C18's case: consume_lines_until consumed the first line, which satisfies
\* the predicate, and left the rest, a line that satisfies it as well.
C18_Witness ==
    /\ last.op = "consume_lines_until"
    /\ Len(WholeLines(Consumed_text)) = 1
    /\ line_pred(last.q, WithoutLineEnding(Consumed_text))
    /\ as_str(last.after) # <<>>
    /\ line_pred(last.q, WithoutLineEnding(FirstLine(as_str(last.after))))

\* The offset at which the remainder of c ends.
RemainderEnd(c) == position(c) + ByteLen(as_str(c))

\* C19: the cursor a focus_* call returns ends where the caller stands after
\* the call; a consume_* call on it leaves the caller as it is and does not
\* move its end; a consume_* call on the caller leaves it as it is; and
\* consume() on it once it is empty returns no character.
C19_FocusCursorIndependentAndBounded ==
    /\ [](/\ last.op \in FocusOps => RemainderEnd(last.out) = position(last.after)
          /\ (last.op = "consume" /\ is_empty(last.before)) =>
                (last.ret = NoChar /\ last.after = last.before))
    /\ [][/\ (Len(cs) = 2 /\ last'.op \in ConsumeOps /\ last'.i = 2) =>
                /\ cs'[1] = cs[1]
                /\ RemainderEnd(cs'[2]) = RemainderEnd(cs[2])
                /\ input(cs'[2]) = input(cs[2])
          /\ (Len(cs) = 2 /\ last'.op \in ConsumeOps /\ last'.i = 1) =>
                cs'[2] = cs[2]]_vars

\* C19's case: consume() on a cursor returned by a focus_* call, once it has
\* been exhausted, returned no character although the input goes on and the
\* caller has text left.
C19_Witness ==
    /\ Len(cs) = 2
    /\ last.op = "consume"
    /\ last.i = 2
    /\ position(last.before) > 0
    /\ last.ret = NoChar
    /\ RemainderEnd(cs[2]) < ByteLen(input(cs[2]))
    /\ ~is_empty(cs[1])

\* C20: the cursor a focus_* call returns, on a cursor made by from(text) or
\* on one that a focus_* call returned, has the caller's input, stands where
\* the caller stood before the call, ends where the caller stands after it,
\* and holds the text of the input between these offsets, which is what the
\* call consumed from the caller; all the cursors have the original text as
\* input(), and consume() moves neither input() nor the offset at which a
\* cursor is exhausted.
C20_FocusPositionsAreAbsolute ==
    /\ [](/\ \A i \in DOMAIN cs : input(cs[i]) = input(cs[1])
          /\ last.op \in FocusOps =>
                /\ input(last.out) = input(last.before)
                /\ position(last.out) = position(last.before)
                /\ RemainderEnd(last.out) = position(last.after)
                /\ as_str(last.out) =
                      Slice(input(last.before), position(last.before), position(last.after))
                /\ as_str(last.out) = Consumed_text)
    /\ [][last'.op = "consume" =>
            /\ input(last'.after) = input(last'.before)
            /\ RemainderEnd(last'.after) = RemainderEnd(last'.before)
            /\ input(cs'[1]) = input(cs[1])]_vars

\* C20's case: a focus_* call on a cursor that a focus_* call had returned,
\* made after the start of the text, returned a text that ends before the
\* input does.
C20_Witness ==
    /\ last.op \in FocusOps
    /\ last.i = 2
    /\ made[1] = "focus"
    /\ position(last.out) > 0
    /\ as_str(last.out) # <<>>
    /\ RemainderEnd(last.out) < ByteLen(input(last.out))

\* C16: the span to_kind returns has the kind given and the remainder,
\* position and input of the span it was called on; the call leaves that span
\* as it was; and consume() on one of the two spans leaves the other as it
\* was.
C16_ToKindChangesOnlyTheTag ==
    /\ [](last.op = "to_kind" =>
            /\ as_str(last.out) = as_str(last.before)
            /\ position(last.out) = position(last.before)
            /\ input(last.out) = input(last.before)
            /\ last.after = last.before
            /\ deref(spans[2]) = last.out
            /\ spans[2].kind = last.q)
    /\ [][/\ last'.op = "to_kind" => spans'[1] = spans[last'.i]
          /\ (Len(spans) = 2 /\ last'.op = "Span::consume") =>
                spans'[3 - last'.i] = spans[3 - last'.i]]_vars

\* C16's case: to_kind was called on a span that stands after the start of
\* its text and gave a span of the other kind; consume() on one of the two
\* then moved it away from the other.
C16_Witness ==
    /\ Len(spans) = 2
    /\ spans[1].kind # spans[2].kind
    /\ last.op = "Span::consume"
    /\ last.ret # NoChar
    /\ position(last.before) > 0
    /\ position(spans[3 - last.i].cursor) = position(last.before)
    /\ spans[1].cursor # spans[2].cursor

\* The index in content of the first character at or after j that is
\* neither a hex digit nor an underscore, when that character is not the
\* closing brace; 0 when there is none.
RECURSIVE UnicodeCutAt(_, _)
UnicodeCutAt(content, j) ==
    IF j > Len(content) THEN 0
    ELSE IF content[j] \in HexDigitChars \cup {95} THEN UnicodeCutAt(content, j + 1)
    ELSE IF content[j] = 125 THEN 0
    ELSE j

\* For a backslash at index i of content that begins an escape: the index of
\* the character that makes the numeric escape fail by being the wrong
\* character (not a hex digit after backslash-x or between the braces, not a
\* brace after backslash-u), 0 when there is none.
FailingCharAt(content, i) ==
    IF i + 1 > Len(content) THEN 0
    ELSE IF content[i + 1] = 120
         THEN IF i + 2 <= Len(content) /\ content[i + 2] \notin HexDigitChars THEN i + 2
              ELSE IF i + 3 <= Len(content) /\ content[i + 3] \notin HexDigitChars THEN i + 3
              ELSE 0
    ELSE IF content[i + 1] = 117
         THEN IF i + 2 > Len(content) THEN 0
              ELSE IF content[i + 2] # 123 THEN i + 2
              ELSE IF i + 3 > Len(content) THEN 0
              ELSE IF content[i + 3] \notin HexDigitChars THEN i + 3
              ELSE UnicodeCutAt(content, i + 4)
    ELSE 0

\* The error of the escape that begins at index i and fails at index f.
FailingCharError(content, i, f) ==
    IF content[i + 1] = 120 THEN "InvalidCharInHexEscape"
    ELSE IF f = i + 2 THEN "NoBraceInUnicodeEscape"
    ELSE IF f = i + 3 /\ content[f] = 95 THEN "LeadingUnderscoreUnicodeEscape"
    ELSE IF f = i + 3 /\ content[f] = 125 THEN "EmptyUnicodeEscape"
    ELSE "InvalidCharInUnicodeEscape"

\* The index of the character of content that starts at byte offset off.
CharIndexAt(content, off) ==
    CHOOSE i \in 1..(Len(content) + 1) : ByteOffset(content, i) = off

\* C21: when a unit begins with a backslash and its numeric escape fails at a
\* character that does not continue it, the unit carries that escape's
\* error and ends right after that character, no unit starts at that
\* character, and the next unit, if the content goes on, starts at the
\* character after it.
C21_FailingCharInsideErrorUnit ==
    pc = "done" => \A content \in {Content} : \A k \in DOMAIN units :
        \A i \in {CharIndexAt(content, units[k].start)} :
            content[i] = 92 => \A f \in {FailingCharAt(content, i)} :
                f # 0 =>
                    /\ units[k].res = Err(FailingCharError(content, i, f))
                    /\ units[k].end = ByteOffset(content, f) + len_utf8(content[f])
                    /\ \A j \in DOMAIN units : units[j].start # ByteOffset(content, f)
                    /\ IF f = Len(content) THEN k = Len(units)
                       ELSE /\ k < Len(units)
                            /\ units[k + 1].start = ByteOffset(content, f + 1)

\* C21's case: backslash-x was cut short by a backslash, with n after it: the
\* backslash is in the failing unit and n is decoded as itself.
C21_Witness ==
    /\ pc = "done"
    /\ Content = <<92, 120, 92, 110>>
    /\ units = <<[start |-> 0, end |-> 3, res |-> Err("InvalidCharInHexEscape")],
                 [start |-> 3, end |-> 4, res |-> Ok(110)]>>

====
